---- MODULE Spec2Model ----
(***************************************************************************)
(* Grid crawl engine of the siteselection repository: the coordinate       *)
(* resolver and sink writer of utils.py, the listing extractor, row        *)
(* builder and grid loop of scraper.py (and the scrape.py variant of the   *)
(* extractor).                                                             *)
(*                                                                         *)
(* Python strings are sequences of one-character strings.  Floats are      *)
(* fixed-point integers in units of 10^-6 degree (the precision the rows   *)
(* are rendered with); an optional float is a record [isNone, v].          *)
(***************************************************************************)
EXTENDS Integers, Sequences, FiniteSets, TLC

VARIABLES
    r_url,      \* resolver run: the argument of extract_coordinates_from_url
    r_out,      \* resolver run: its outcome, [done, raised, lat, lon]
    p_in,       \* extractor run: [variant, markup, max_results]
    p_out,      \* extractor run: its outcome, [done, cands, inspected]
    q_in,       \* row-builder run: [link, lat, lon] of the candidate and cell
    q_out,      \* row-builder run: its outcome, [done, row]
    s_in,       \* scrape_for_query run: [page, lat, lon, take, saves]
    s_out,      \* scrape_for_query run: its outcome, [done, raised, rows]
    pc,         \* run_scraper: where the run is
    cfg,        \* run_scraper: the configuration it reads
    lat, lon,   \* run_scraper: the loop variables of the grid
    row, col,
    task,       \* run_scraper: index of the (cat, subcat) pair within the cell
    rows,       \* run_scraper: the rows scrape_for_query returned
    session,    \* the browsing session: "none", "live", "released"
    fs,         \* the file system: sink path -> [exists, lines]
    runs,       \* how many times run_scraper has been started
    faults,     \* how many calls have raised so far
    listings,   \* how many fetches have returned a listing so far
    visited,    \* history: the cells of this run, <<row, col, lat, lon>>
    attempted,  \* history: the <<row, col, task>> queried in this run
    base,       \* history: the length of each sink when this run started
    failedSinks,\* history: the sinks an append to which has raised
    completed,  \* history: the pairs of this run whose iteration has finished,
                \* in order, each [cell, task, rows]
    quits,      \* history: how many times this run has called driver.quit()
    inflight,   \* how many navigations are in progress on the session
    w_pc,       \* concurrent writers: where each worker's write_rows_to_csv is
    w_first,    \* concurrent writers: each worker's first_time
    w_buf,      \* concurrent writers: what each worker's file object has buffered
    w_n,        \* concurrent writers: how many of its rows each worker has written
    w_file      \* concurrent writers: the sink they share, [exists, data]

vars == <<r_url, r_out, p_in, p_out, q_in, q_out, s_in, s_out, pc, cfg, lat, lon, row, col,
          task, rows, session, fs, runs, faults, listings, visited, attempted,
          base, failedSinks, completed, quits, inflight,
          w_pc, w_first, w_buf, w_n, w_file>>

resolveVars == <<r_url, r_out>>

parseVars == <<p_in, p_out>>

rowVars == <<q_in, q_out>>

scrapeVars == <<s_in, s_out>>

crawlVars == <<pc, cfg, lat, lon, row, col, task, rows, session, fs, runs, faults,
               listings, visited, attempted, base, failedSinks, completed, quits,
               inflight>>

writerVars == <<w_pc, w_first, w_buf, w_n, w_file>>

(***************************************************************************)
(* Bounds of the model.                                                    *)
(***************************************************************************)
\* longest location reference drawn for the resolver, in tokens
MaxTokens == 5

\* most elements in a markup drawn for the extractor
MaxCards == 3

\* largest max_results drawn for the extractor
MaxResults == 2

\* how many times run_scraper is started against the same output directory
MaxRuns == 2

\* how many calls (navigations, appends) raise in one history
MaxFaults == 1

\* how many fetches return a listing in one history (the rest return none)
MaxListings == 2

\* largest corner coordinate and step drawn for the grid, in units of 1e-12
MaxCoord == 3

MaxStep == 2

\* how many workers append to the same sink at once
MaxWorkers == 2

\* the row and column indices from which on the model tells no two apart: a
\* loop that does not end keeps turning there
MaxIndex == 8

\* largest corner coordinate drawn for the loops that may not end
MaxLoopCoord == 1

\* how far below zero a falling coordinate gets before it is so large that
\* a step taken from it is rounded away
MaxFall == 4

(***************************************************************************)
(* Python values.                                                          *)
(***************************************************************************)
None == [isNone |-> TRUE, v |-> 0]

Float(x) == [isNone |-> FALSE, v |-> x]

\* bool(x) of an optional float: None and 0.0 are both falsy
Truthy(x) == (~x.isNone) /\ x.v # 0

PyStr(s) == [type |-> "str", s |-> s]

PyNone == [type |-> "NoneType", s |-> <<>>]

\* units per degree of the fixed-point floats: six decimal places
MICRO == 1000000

DigitChars == <<"0", "1", "2", "3", "4", "5", "6", "7", "8", "9">>

IsDigit(c) == \E i \in 1..10 : DigitChars[i] = c

DigitVal(c) == (CHOOSE i \in 1..10 : DigitChars[i] = c) - 1

RECURSIVE DigitsToNat(_)
DigitsToNat(ds) ==
    IF ds = <<>> THEN 0
    ELSE DigitsToNat(SubSeq(ds, 1, Len(ds) - 1)) * 10 + DigitVal(ds[Len(ds)])

\* float(t) for t matched by -?\d+\.\d+, as a fixed-point value (digits past
\* the sixth decimal are dropped)
ParseFloat(t) ==
    LET neg  == t[1] = "-"
        body == IF neg THEN Tail(t) ELSE t
        dot  == CHOOSE d \in 1..Len(body) : body[d] = "."
        ip   == SubSeq(body, 1, dot - 1)
        fp   == SubSeq(body, dot + 1, Len(body))
        fp6  == [k \in 1..6 |-> IF k <= Len(fp) THEN fp[k] ELSE "0"]
        mag  == DigitsToNat(ip) * MICRO + DigitsToNat(fp6)
    IN  IF neg THEN 0 - mag ELSE mag

(***************************************************************************)
(* utils.extract_coordinates_from_url: the two regular expressions.        *)
(***************************************************************************)
\* \d+ matched greedily from position i: the first position that is no digit
RECURSIVE DigitsEnd(_, _)
DigitsEnd(s, i) ==
    IF i <= Len(s) /\ IsDigit(s[i]) THEN DigitsEnd(s, i + 1) ELSE i

\* -?\d+\.\d+ matched at position i: the position after the match, 0 if none.
\* Each part is greedy and no shorter choice lets the rest match.
FloatEnd(s, i) ==
    LET a == IF i <= Len(s) /\ s[i] = "-" THEN i + 1 ELSE i
        b == DigitsEnd(s, a)
    IN  IF b > a /\ b <= Len(s) /\ s[b] = "." /\ DigitsEnd(s, b + 1) > b + 1
        THEN DigitsEnd(s, b + 1)
        ELSE 0

\* @(-?\d+\.\d+),(-?\d+\.\d+) matched at position i: the two groups, or <<>>
CenterMarkerAt(s, i) ==
    IF i > Len(s) \/ s[i] # "@" THEN <<>>
    ELSE LET e1 == FloatEnd(s, i + 1)
         IN  IF e1 = 0 \/ e1 > Len(s) \/ s[e1] # "," THEN <<>>
             ELSE LET e2 == FloatEnd(s, e1 + 1)
                  IN  IF e2 = 0 THEN <<>>
                      ELSE <<SubSeq(s, i + 1, e1 - 1), SubSeq(s, e1 + 1, e2 - 1)>>

\* re.search of the center-marker pattern: the leftmost match from i on
RECURSIVE re_search(_, _)
re_search(s, i) ==
    IF i > Len(s) THEN <<>>
    ELSE IF CenterMarkerAt(s, i) # <<>> THEN CenterMarkerAt(s, i)
    ELSE re_search(s, i + 1)

\* re.findall of the float pattern: leftmost, non-overlapping matches from i on
RECURSIVE re_findall(_, _)
re_findall(s, i) ==
    IF i > Len(s) THEN <<>>
    ELSE LET e == FloatEnd(s, i)
         IN  IF e # 0 THEN <<SubSeq(s, i, e - 1)>> \o re_findall(s, e)
             ELSE re_findall(s, i + 1)

\* the body of the try block with its two tiers in the other order
ExtractBody_FallbackFirst(url) ==
    IF url.type # "str" THEN [outcome |-> "raise", lat |-> None, lon |-> None]
    ELSE LET m      == re_search(url.s, 1)
             floats == re_findall(url.s, 1)
         IN  IF Len(floats) >= 2
             THEN [outcome |-> "return", lat |-> Float(ParseFloat(floats[1])),
                                         lon |-> Float(ParseFloat(floats[2]))]
             ELSE IF m # <<>>
             THEN [outcome |-> "return", lat |-> Float(ParseFloat(m[1])),
                                         lon |-> Float(ParseFloat(m[2]))]
             ELSE [outcome |-> "fall", lat |-> None, lon |-> None]

\* the body of the try block: re.search raises TypeError on a non-string
ExtractBody(url) ==
    IF url.type # "str" THEN [outcome |-> "raise", lat |-> None, lon |-> None]
    ELSE LET m      == re_search(url.s, 1)
             floats == re_findall(url.s, 1)
         IN  IF m # <<>>
             THEN [outcome |-> "return", lat |-> Float(ParseFloat(m[1])),
                                         lon |-> Float(ParseFloat(m[2]))]
             ELSE IF Len(floats) >= 2
             THEN [outcome |-> "return", lat |-> Float(ParseFloat(floats[1])),
                                         lon |-> Float(ParseFloat(floats[2]))]
             ELSE [outcome |-> "fall", lat |-> None, lon |-> None]

\* the function with its except clause left out: the error reaches the caller
extract_coordinates_NoExcept(url) ==
    LET b == ExtractBody(url)
    IN  [raised |-> b.outcome = "raise", lat |-> b.lat, lon |-> b.lon]

\* try: body; except Exception: print; then return None, None
extract_coordinates_from_url(url) ==
    LET b == ExtractBody(url)
    IN  IF b.outcome = "return"
        THEN [raised |-> FALSE, lat |-> b.lat, lon |-> b.lon]
        ELSE [raised |-> FALSE, lat |-> None, lon |-> None]

(***************************************************************************)
(* Resolver runs: one call on a reference drawn from bounded inputs.       *)
(***************************************************************************)
Tokens ==
    { <<"@">>, <<",">>, <<"-">>, <<"x">>, <<"1", ".", "5">>, <<"2", ".", "5">> }

RECURSIVE Flatten(_)
Flatten(ts) == IF ts = <<>> THEN <<>> ELSE Head(ts) \o Flatten(Tail(ts))

ResolverInputs ==
    {PyNone} \cup
    { PyStr(Flatten(ts)) : ts \in UNION { [1..n -> Tokens] : n \in 0..MaxTokens } }

(***************************************************************************)
(* scraper.parse_left_panel_pois (the same text in new_scraper.py) and the *)
(* scrape.py variant.  A markup is the sequence of its elements, in        *)
(* document order; an element is described by what the extractor reads of  *)
(* it.                                                                     *)
(***************************************************************************)
\* s[:n]
Take(s, n) == SubSeq(s, 1, IF Len(s) < n THEN Len(s) ELSE n)

\* sub in s
Contains(s, sub) ==
    \E i \in 1..(Len(s) - Len(sub) + 1) : SubSeq(s, i, i + Len(sub) - 1) = sub

\* s.strip('()')
RECURSIVE StripParens(_)
StripParens(s) ==
    IF s = <<>> THEN s
    ELSE IF s[1] \in {"(", ")"} THEN StripParens(Tail(s))
    ELSE IF s[Len(s)] \in {"(", ")"} THEN StripParens(SubSeq(s, 1, Len(s) - 1))
    ELSE s

\* the slice bound of the visible-text fallback
NAME_LIMIT == 200

\* an element of the markup:
\*   kind      "Nv2PK" (a div of the card class), "a" (a link) or "other"
\*   href      its own href ('' if it has none)
\*   aria      its own aria-label ('' if it has none)
\*   hasLink, nlink, naria   its first nested a[href]: the href and aria-label
\*   hasHeading, heading     its div.qBF1Pd or div.fontHeadlineSmall: the text
\*   hasDiv, firstDiv        its first nested div or h3: the text
\*   text      get_text(strip=True)
\*   rating    the text of its rating span ('' if it has none)
\*   reviews   the text of its review-count span ('' if it has none)
\*   raises    reading it raises inside the try block
Element(kind, href, aria, hasLink, nlink, naria, hasHeading, heading,
        hasDiv, firstDiv, text, rating, reviews, raises) ==
    [kind |-> kind, href |-> href, aria |-> aria, hasLink |-> hasLink,
     nlink |-> nlink, naria |-> naria, hasHeading |-> hasHeading,
     heading |-> heading, hasDiv |-> hasDiv, firstDiv |-> firstDiv,
     text |-> text, rating |-> rating, reviews |-> reviews, raises |-> raises]

LongText == [i \in 1..(NAME_LIMIT + 1) |-> "x"]

HrefMaps == <<"/", "m", "a", "p", "s", "/", "@", "1", ".", "5", ",", "2", ".", "5">>

HrefPlace == <<"/", "p", "l", "a", "c", "e", "/", "p">>

HrefOther == <<"/", "x">>

\* a card of the current layout: nested link, heading, rating, review count
CardFull ==
    Element("Nv2PK", <<>>, <<>>, TRUE, HrefMaps, <<>>, TRUE, <<"H">>,
            TRUE, <<"H">>, <<"H", "4">>, <<"4">>, <<"(", "7", ")">>, FALSE)

\* a card named by its own aria-label only
CardAria ==
    Element("Nv2PK", <<>>, <<"A">>, FALSE, <<>>, <<>>, FALSE, <<>>,
            FALSE, <<>>, <<>>, <<>>, <<>>, FALSE)

\* a card with no label, no heading and no visible text
CardBare ==
    Element("Nv2PK", <<>>, <<>>, FALSE, <<>>, <<>>, FALSE, <<>>,
            FALSE, <<>>, <<>>, <<>>, <<>>, FALSE)

\* a card whose only label is the aria-label of its nested link
CardLinkLabel ==
    Element("Nv2PK", <<>>, <<>>, TRUE, HrefPlace, <<"L">>, FALSE, <<>>,
            FALSE, <<>>, <<>>, <<>>, <<>>, FALSE)

\* a card with no label of its own, a labelled nested link and a heading
CardLinkHeading ==
    Element("Nv2PK", <<>>, <<>>, TRUE, HrefPlace, <<"L">>, TRUE, <<"H">>,
            TRUE, <<"H">>, <<"H", "T">>, <<>>, <<>>, FALSE)

\* a card with nothing but a long visible text
CardLong ==
    Element("Nv2PK", <<>>, <<>>, FALSE, <<>>, <<>>, FALSE, <<>>,
            FALSE, <<>>, LongText, <<>>, <<>>, FALSE)

\* a card whose fields cannot be read
CardBroken ==
    Element("Nv2PK", <<>>, <<>>, FALSE, <<>>, <<>>, FALSE, <<>>,
            FALSE, <<>>, <<"B">>, <<>>, <<>>, TRUE)

\* links outside any card: to a place, to somewhere else, and without text
LinkPlace ==
    Element("a", HrefPlace, <<>>, FALSE, <<>>, <<>>, FALSE, <<>>,
            FALSE, <<>>, <<"P">>, <<>>, <<>>, FALSE)

LinkOther ==
    Element("a", HrefOther, <<>>, FALSE, <<>>, <<>>, FALSE, <<>>,
            FALSE, <<>>, <<"Q">>, <<>>, <<>>, FALSE)

LinkNoText ==
    Element("a", HrefMaps, <<>>, FALSE, <<>>, <<>>, FALSE, <<>>,
            FALSE, <<>>, <<>>, <<>>, <<>>, FALSE)

Elements ==
    {CardFull, CardAria, CardBare, CardLinkLabel, CardLinkHeading, CardLong,
     CardBroken, LinkPlace, LinkOther, LinkNoText}

\* soup.find_all('div', class_='Nv2PK'), else the links that look like places
FindCards(markup) ==
    LET primary == SelectSeq(markup, LAMBDA e : e.kind = "Nv2PK")
        IsPlaceLink(e) ==
            /\ e.kind = "a"
            /\ Contains(e.href, <<"/", "p", "l", "a", "c", "e", "/">>) \/ Contains(e.href, <<"/", "m", "a", "p", "s">>)
            /\ e.text # <<>>
    IN  IF primary # <<>> THEN primary ELSE SelectSeq(markup, IsPlaceLink)

Candidate(name, link, rating, reviews) ==
    [name |-> name, link |-> link, rating |-> rating, reviews |-> reviews]

NoCandidate == [emit |-> FALSE, cand |-> Candidate(<<>>, <<>>, <<>>, <<>>)]

\* the try block of scraper.py for one card: the candidate it appends, if any
CardCandidate_scraper(card) ==
    IF card.raises THEN NoCandidate
    ELSE LET link  == IF card.kind = "a" /\ card.href # <<>> THEN card.href
                      ELSE IF card.hasLink THEN card.nlink ELSE <<>>
             name1 == IF card.aria # <<>> THEN card.aria
                      ELSE IF card.kind = "a" /\ card.aria # <<>> THEN card.aria
                      ELSE <<>>
             name2 == IF name1 = <<>> /\ card.hasHeading THEN card.heading ELSE name1
             name  == IF name2 = <<>> THEN Take(card.text, NAME_LIMIT) ELSE name2
         IN  [emit |-> name # <<>>,
              cand |-> Candidate(name, link, card.rating, StripParens(card.reviews))]

\* the try block of scrape.py for one card: it appends whatever name it has
CardCandidate_scrape(card) ==
    IF card.raises THEN NoCandidate
    ELSE IF card.kind = "a" /\ card.href # <<>>
    THEN [emit |-> TRUE,
          cand |-> Candidate(Take(card.text, NAME_LIMIT), card.href,
                             card.rating, card.reviews)]
    ELSE [emit |-> TRUE,
          cand |-> Candidate(IF card.hasDiv THEN card.firstDiv
                             ELSE Take(card.text, NAME_LIMIT),
                             IF card.hasLink THEN card.nlink ELSE <<>>,
                             card.rating, card.reviews)]

CardCandidate(variant, card) ==
    IF variant = "scrape" THEN CardCandidate_scrape(card)
    ELSE CardCandidate_scraper(card)

\* the cap test with its comparison off by one
CapReached_Strict(n, max_results) == n > max_results

\* if len(candidates) >= max_results: break
CapReached(n, max_results) == n >= max_results

\* a loop that a card's error ends, as a break would
RECURSIVE CardLoop_BreakOnError(_, _, _, _, _)
CardLoop_BreakOnError(variant, cards, i, candidates, max_results) ==
    IF i > Len(cards) \/ CapReached(Len(candidates), max_results) \/ cards[i].raises
    THEN [cands |-> candidates, inspected |-> i - 1]
    ELSE LET c == CardCandidate(variant, cards[i])
         IN  CardLoop_BreakOnError(variant, cards, i + 1,
                      IF c.emit THEN Append(candidates, c.cand) ELSE candidates,
                      max_results)

\* the loop over the cards from card i on: the candidates, and how many cards
\* the loop body has inspected
RECURSIVE CardLoop(_, _, _, _, _)
CardLoop(variant, cards, i, candidates, max_results) ==
    IF i > Len(cards) \/ CapReached(Len(candidates), max_results)
    THEN [cands |-> candidates, inspected |-> i - 1]
    ELSE LET c == CardCandidate(variant, cards[i])
         IN  CardLoop(variant, cards, i + 1,
                      IF c.emit THEN Append(candidates, c.cand) ELSE candidates,
                      max_results)

parse_left_panel_pois(variant, page_source, max_results) ==
    CardLoop(variant, FindCards(page_source), 1, <<>>, max_results)

(***************************************************************************)
(* Extractor runs: one call on a markup drawn from bounded inputs.         *)
(***************************************************************************)
Variants == {"scraper", "scrape"}

Markups == UNION { [1..n -> Elements] : n \in 0..MaxCards }


(***************************************************************************)
(* utils.haversine_distance and the renderings of scrape_for_query.        *)
(***************************************************************************)
Abs(x) == IF x < 0 THEN 0 - x ELSE x

\* Distance between two points, in tenths of a metre.  The checker has no
\* trigonometry: the great circle is taken as the sum of the two coordinate
\* differences at 1/9 m per 10^-6 degree, which keeps what the rows depend
\* on: zero exactly for identical points, symmetric, never negative.
haversine_distance(lat1, lon1, lat2, lon2) ==
    ((Abs(lat2 - lat1) + Abs(lon2 - lon1)) * 10) \div 9

RECURSIVE IntToStr(_)
IntToStr(n) ==
    IF n < 10 THEN <<DigitChars[n + 1]>>
    ELSE IntToStr(n \div 10) \o <<DigitChars[(n % 10) + 1]>>

\* the six decimals of a fixed-point value
Decimals6(n) ==
    << DigitChars[((n \div 100000) % 10) + 1], DigitChars[((n \div 10000) % 10) + 1],
       DigitChars[((n \div 1000) % 10) + 1],   DigitChars[((n \div 100) % 10) + 1],
       DigitChars[((n \div 10) % 10) + 1],     DigitChars[(n % 10) + 1] >>

\* f"{x:.6f}"
Fmt6(x) ==
    (IF x < 0 THEN <<"-">> ELSE <<>>) \o IntToStr(Abs(x) \div MICRO) \o <<".">> \o
    Decimals6(Abs(x) % MICRO)

\* f"{d:.1f}" of a distance held in tenths of a metre
Fmt1(d) == IntToStr(d \div 10) \o <<".">> \o <<DigitChars[(d % 10) + 1]>>

NA == <<"N", "/", "A">>

\* header of run_scraper
HEADER ==
    << <<"N", "a", "m", "e">>,
       <<"R", "a", "t", "i", "n", "g">>,
       <<"N", "u", "m", "b", "e", "r", " ", "o", "f", " ", "R", "e", "v", "i", "e", "w", "s">>,
       <<"L", "a", "t", "i", "t", "u", "d", "e">>,
       <<"L", "o", "n", "g", "i", "t", "u", "d", "e">>,
       <<"S", "e", "a", "r", "c", "h", " ", "Q", "u", "e", "r", "y">>,
       <<"C", "e", "n", "t", "e", "r", "L", "a", "t">>,
       <<"C", "e", "n", "t", "e", "r", "L", "o", "n">>,
       <<"D", "i", "s", "t", "a", "n", "c", "e", "_", "m">> >>

Field(r, name) == r[CHOOSE i \in 1..Len(HEADER) : HEADER[i] = name]

ColLatitude == <<"L", "a", "t", "i", "t", "u", "d", "e">>

ColLongitude == <<"L", "o", "n", "g", "i", "t", "u", "d", "e">>

ColDistance == <<"D", "i", "s", "t", "a", "n", "c", "e", "_", "m">>

(***************************************************************************)
(* scraper.scrape_for_query: the row built for one candidate, and the rows *)
(* of one listing.  clat and clon are its lat and lon arguments, the cell   *)
(* center.                                                                 *)
(***************************************************************************)
\* lines 84-85: the cell center stands in for coordinates that did not resolve
OrCenter(r, clat, clon) ==
    IF r.lat.isNone \/ r.lon.isNone
    THEN [lat |-> Float(clat), lon |-> Float(clon)]
    ELSE [lat |-> r.lat, lon |-> r.lon]

\* line 87: the distance, if both coordinates are truthy
DistanceOrNone(clat, clon, pt) ==
    IF Truthy(pt.lat) /\ Truthy(pt.lon)
    THEN Float(haversine_distance(clat, clon, pt.lat.v, pt.lon.v))
    ELSE None

\* lines 89-99: the row
RowOf(p, query, clat, clon, pt, dist_m) ==
    << p.name,
       p.rating,
       p.reviews,
       IF Truthy(pt.lat) THEN Fmt6(pt.lat.v) ELSE NA,
       IF Truthy(pt.lon) THEN Fmt6(pt.lon.v) ELSE NA,
       query,
       Fmt6(clat),
       Fmt6(clon),
       IF ~dist_m.isNone THEN Fmt1(dist_m.v) ELSE <<>> >>

\* lines 82-99: the body of the loop over the candidates
BuildRowAt(p, query, clat, clon, pt) ==
    RowOf(p, query, clat, clon, pt, DistanceOrNone(clat, clon, pt))

BuildRow(p, query, clat, clon) ==
    BuildRowAt(p, query, clat, clon,
               OrCenter(extract_coordinates_from_url(PyStr(p.link)), clat, clon))

\* config.NUM_RESULTS_PER_SEARCH
NUM_RESULTS_PER_SEARCH == 10

\* lines 77-99: the rows of one fetched page
scrape_for_query(page_source, query, clat, clon, max_results) ==
    LET pois == parse_left_panel_pois("scraper", page_source, max_results).cands
    IN  [i \in 1..Len(pois) |-> BuildRow(pois[i], query, clat, clon)]

\* config.TAKE_SCREENSHOTS
TAKE_SCREENSHOTS == TRUE

\* a screenshot block without its except clause
ScreenshotBlock_Uncaught(take_screenshot, saves) ==
    IF ~take_screenshot THEN "skipped"
    ELSE IF saves THEN "saved" ELSE "raised"

\* lines 101-108: how the screenshot block ends, saves telling whether
\* driver.save_screenshot succeeds; what it raises is caught and printed
ScreenshotBlock(take_screenshot, saves) ==
    IF ~take_screenshot THEN "skipped"
    ELSE IF saves THEN "saved" ELSE "caught"

\* lines 77-110: the page is read, the rows are built, the screenshot is
\* taken if asked for, the rows are returned
scrape_for_query_shot(page_source, query, clat, clon, max_results, take_screenshot, saves) ==
    IF ScreenshotBlock(take_screenshot, saves) = "raised"
    THEN [raised |-> TRUE, rows |-> <<>>]
    ELSE [raised |-> FALSE,
          rows   |-> scrape_for_query(page_source, query, clat, clon, max_results)]

\* links and cell centers drawn for the row builder
RowLinks ==
    { <<>>, HrefPlace, HrefMaps,
      <<"@", "0", ".", "0", ",", "2", ".", "5">>, <<"@", "1", ".", "5", ",", "0", ".", "0">>, <<"@", "-", "1", ".", "5", ",", "2", ".", "5">>, <<"1", ".", "5", "x", "2", ".", "5">> }

Centers == {0, 1500000, 0 - 1500000, 2500000}

(***************************************************************************)
(* utils.write_rows_to_csv.  A file system maps each sink path to a file   *)
(* [exists, lines]; a line is one row as csv.writer gets it.  files is the  *)
(* file system the call finds, rs its rows argument.                       *)
(***************************************************************************)
NoFile == [exists |-> FALSE, lines |-> <<>>]

\* the lines of a call that writes the header whenever one is given
LinesToWrite_AlwaysHeader(files, path, rs, header) ==
    (IF header # <<>> THEN <<header>> ELSE <<>>) \o rs

\* the lines of a call that writes its rows last to first
LinesToWrite_Reversed(files, path, rs, header) ==
    (IF header # <<>> /\ ~files[path].exists THEN <<header>> ELSE <<>>)
    \o [i \in 1..Len(rs) |-> rs[Len(rs) + 1 - i]]

\* first_time = not os.path.exists(path); the header goes first if one was
\* given and the path did not exist, then the rs in order (header is <<>>
\* when the caller passes none)
LinesToWrite(files, path, rs, header) ==
    (IF header # <<>> /\ ~files[path].exists THEN <<header>> ELSE <<>>) \o rs

\* a call that opens the file for writing instead of appending
write_rows_Truncating(files, path, rs, header) ==
    [files EXCEPT ![path] =
        [exists |-> TRUE, lines |-> LinesToWrite(files, path, rs, header)]]

\* a call that returns with its rows still buffered, not yet in the file
write_rows_Deferred(files, path, rs, header) ==
    [files EXCEPT ![path] =
        [exists |-> TRUE, lines |-> @.lines \o LinesToWrite(files, path, <<>>, header)]]

\* a call that returns: open(path, "a") creates the file, the lines follow
write_rows_to_csv(files, path, rs, header) ==
    [files EXCEPT ![path] =
        [exists |-> TRUE, lines |-> @.lines \o LinesToWrite(files, path, rs, header)]]

\* a call that raises: before the file is opened (nothing changes), or after,
\* with the file created and only some first lines of the call on disk
write_rows_failed(files, path, rs, header) ==
    LET L == LinesToWrite(files, path, rs, header)
    IN  {files} \cup
        { [files EXCEPT ![path] = [exists |-> TRUE, lines |-> @.lines \o SubSeq(L, 1, k)]] :
            k \in 0..(IF Len(L) = 0 THEN 0 ELSE Len(L) - 1) }

(***************************************************************************)
(* config.py, scaled down: a grid of one row and two columns, one category *)
(* with two query terms.  Coordinates are in units of 10^-6 degree, in     *)
(* which the 1e-12 tolerance of the grid loop is below one unit (EPS = 0),  *)
(* and so is the spacing of the floats around the coordinates (ULP = 0).   *)
(***************************************************************************)
OUTPUT_DIR == << <<"D", "a", "t", "a", "s", "e", "t">> >>

join(dir, name) == Append(dir, name)

COMBINED_CSV == join(OUTPUT_DIR, <<"d", "a", "t", "a", "s", "e", "t", ".", "c", "s", "v">>)

PER_CATEGORY_DIR == join(OUTPUT_DIR, <<"c", "a", "t", "e", "g", "o", "r", "i", "e", "s">>)

CATEGORIES ==
    << [cat     |-> <<"E", "v", "e", "n", "t", " ", "V", "e", "n", "u", "e">>,
        subcats |-> << <<"C", "o", "n", "f", "e", "r", "e", "n", "c", "e", " ", "C", "e", "n", "t", "e", "r">>, <<"A", "r", "e", "n", "a">> >>] >>

CONFIG ==
    [START_LAT |-> 1500000, START_LON |-> 2500000,
     END_LAT   |-> 1500000, END_LON   |-> 3500000,
     STEP_LAT  |-> 1000000, STEP_LON  |-> 1000000, EPS |-> 0, ULP |-> 0]

\* s.replace(a, b) for one-character a and b
Replace(s, a, b) == [i \in 1..Len(s) |-> IF s[i] = a THEN b ELSE s[i]]

\* the (cat, subcat) pairs in the order the two for loops visit them
RECURSIVE TasksFrom(_, _)
TasksFrom(cats, i) ==
    IF i > Len(cats) THEN <<>>
    ELSE [k \in 1..Len(cats[i].subcats) |-> [cat |-> cats[i].cat, subcat |-> cats[i].subcats[k]]]
         \o TasksFrom(cats, i + 1)

Tasks == TasksFrom(CATEGORIES, 1)

\* os.path.join(cat_dir, f"{safe_subcat}.csv")
SinkPath(t) ==
    join(join(PER_CATEGORY_DIR, Replace(t.cat, " ", "_")),
         Replace(t.subcat, " ", "_") \o <<".", "c", "s", "v">>)

CategorySinks == { SinkPath(Tasks[i]) : i \in 1..Len(Tasks) }

Paths == {COMBINED_CSV} \cup CategorySinks

\* what a fetch can return: no listing, or a listing of two cards, one with a
\* resolvable link and one without
Pages == { <<>>, <<CardFull, CardAria>> }

(***************************************************************************)
(* scraper.run_scraper.                                                    *)
(***************************************************************************)
\* the loop test with the end bound excluded
InGrid_Exclusive(x, end, eps) == x < end + eps

\* while x <= end + 1e-12
InGrid(x, end, eps) == x <= end + eps

\* an addition that leaves the coordinate where it is
FAdd_Stuck(x, step, ulp) == x

\* x += step on floats whose spacing around x is ulp: a step of less than
\* half the spacing is rounded away and x keeps its value; the rounding of
\* larger steps is left out (with ulp = 0 the addition is exact).  The
\* spacing grows with the magnitude of x: a coordinate that keeps falling
\* ends where the step is rounded away, MaxFall below zero.
FAdd(x, step, ulp) ==
    IF 2 * Abs(step) < ulp THEN x
    ELSE IF x + step < 0 - MaxFall THEN x
    ELSE x + step

\* row += 1, col += 1: the indices past MaxIndex are all held as MaxIndex
NextIndex(i) == IF i < MaxIndex THEN i + 1 ELSE i

\* history h with x added; the histories leave out the cells past MaxIndex
Recorded(h, x) == IF row < MaxIndex /\ col < MaxIndex THEN Append(h, x) ELSE h

\* a run that leaves the try block without releasing the session
Escape_NoQuit ==
    /\ pc' = "aborted"
    /\ UNCHANGED <<session, quits>>

\* an exception leaves the try block: finally: driver.quit()
Escape ==
    /\ pc' = "aborted"
    /\ session' = "released"
    /\ quits' = quits + 1

\* lines 113-127: the combined sink gets its header if it does not exist and
\* the session is created.  A header append that raises, or a browser that
\* does not start, ends the run before the session exists.
Start ==
    /\ pc \in {"idle", "done", "aborted"}
    /\ runs < MaxRuns
    /\ runs' = runs + 1
    /\ visited' = <<>>
    /\ attempted' = {}
    /\ completed' = <<>>
    /\ quits' = 0
    /\ inflight' = 0
    /\ base' = [p \in Paths |-> Len(fs[p].lines)]
    /\ rows' = <<>>
    /\ \/ /\ fs' = IF fs[COMBINED_CSV].exists THEN fs
                   ELSE write_rows_to_csv(fs, COMBINED_CSV, <<>>, HEADER)
          /\ session' = "live"
          /\ pc' = "home"
          /\ UNCHANGED <<faults, failedSinks>>
       \/ /\ fs' = IF fs[COMBINED_CSV].exists THEN fs
                   ELSE write_rows_to_csv(fs, COMBINED_CSV, <<>>, HEADER)
          /\ faults < MaxFaults
          /\ faults' = faults + 1
          /\ session' = "none"
          /\ pc' = "aborted"
          /\ UNCHANGED failedSinks
       \/ /\ ~fs[COMBINED_CSV].exists
          /\ faults < MaxFaults
          /\ faults' = faults + 1
          /\ fs' \in write_rows_failed(fs, COMBINED_CSV, <<>>, HEADER)
          /\ failedSinks' = failedSinks \cup {COMBINED_CSV}
          /\ session' = "none"
          /\ pc' = "aborted"
    /\ UNCHANGED <<cfg, lat, lon, row, col, task, listings>>
    /\ UNCHANGED <<resolveVars, parseVars, rowVars, scrapeVars, writerVars>>

\* lines 129-134: inside the try block the session opens the maps home page
\* and the loop variables are set; a navigation that raises leaves the block
Home ==
    /\ pc = "home"
    /\ \/ /\ lat' = cfg.START_LAT
          /\ row' = 0
          /\ pc' = "row"
          /\ UNCHANGED <<faults, session, quits>>
       \/ /\ faults < MaxFaults
          /\ faults' = faults + 1
          /\ Escape
          /\ UNCHANGED <<lat, row>>
    /\ UNCHANGED <<cfg, lon, col, task, rows, fs, runs, listings, visited, attempted,
                   base, failedSinks, completed, inflight>>
    /\ UNCHANGED <<resolveVars, parseVars, rowVars, scrapeVars, writerVars>>

\* line 135: the outer loop test; past the last row the run completes and
\* the finally clause releases the session
RowCheck ==
    /\ pc = "row"
    /\ IF InGrid(lat, cfg.END_LAT, cfg.EPS)
       THEN /\ lon' = cfg.START_LON
            /\ col' = 0
            /\ pc' = "col"
            /\ UNCHANGED <<session, quits>>
       ELSE /\ pc' = "done"
            /\ session' = "released"
            /\ quits' = quits + 1
            /\ UNCHANGED <<lon, col>>
    /\ UNCHANGED <<cfg, lat, row, task, rows, fs, runs, faults, listings, visited,
                   attempted, base, failedSinks, completed, inflight>>
    /\ UNCHANGED <<resolveVars, parseVars, rowVars, scrapeVars, writerVars>>

\* line 138: the inner loop test; a cell is entered, or the row is finished
\* (lines 170-171)
ColCheck ==
    /\ pc = "col"
    /\ IF InGrid(lon, cfg.END_LON, cfg.EPS)
       THEN /\ visited' = Recorded(visited, <<row, col, lat, lon>>)
            /\ task' = 1
            /\ pc' = "cell"
            /\ UNCHANGED <<lat, row>>
       ELSE /\ lat' = FAdd(lat, cfg.STEP_LAT, cfg.ULP)
            /\ row' = NextIndex(row)
            /\ pc' = "row"
            /\ UNCHANGED <<visited, task>>
    /\ UNCHANGED <<cfg, lon, col, rows, session, fs, runs, faults, listings,
                   attempted, base, failedSinks, completed, quits, inflight>>
    /\ UNCHANGED <<resolveVars, parseVars, rowVars, scrapeVars, writerVars>>

\* lines 145-152 with lines 73-75 of scrape_for_query: the next pair of the
\* cell is taken up and the session navigates to its search URL.  The
\* navigation raises, or the page starts to load and settle.
Query ==
    /\ pc = "cell"
    /\ task <= Len(Tasks)
    /\ attempted' = attempted \cup {<<row, col, task>>}
    /\ \/ /\ faults < MaxFaults
          /\ faults' = faults + 1
          /\ Escape
          /\ UNCHANGED inflight
       \/ /\ inflight' = inflight + 1
          /\ pc' = "loading"
          /\ UNCHANGED <<faults, session, quits>>
    /\ UNCHANGED <<cfg, lat, lon, row, col, task, rows, fs, runs, listings, visited,
                   base, failedSinks, completed>>
    /\ UNCHANGED <<resolveVars, parseVars, rowVars, scrapeVars, writerVars>>

\* lines 77-110 of scrape_for_query, then lines 154 and 163-166: the markup
\* is read, which ends the navigation, and its rows are built; with no rows
\* the pair is finished and the loop moves on to the next one
Listing ==
    /\ pc = "loading"
    /\ inflight' = inflight - 1
    /\ \E page \in Pages, saves \in BOOLEAN :
         LET ret == scrape_for_query_shot(page, Tasks[task].subcat, lat, lon,
                        NUM_RESULTS_PER_SEARCH, TAKE_SCREENSHOTS, saves)
         IN  /\ page # <<>> => listings < MaxListings
             /\ listings' = IF page # <<>> THEN listings + 1 ELSE listings
             /\ IF ret.raised
                THEN /\ Escape
                     /\ UNCHANGED <<rows, task, completed>>
                ELSE /\ rows' = ret.rows
                     /\ UNCHANGED <<session, quits>>
                     /\ IF ret.rows # <<>>
                        THEN /\ pc' = "write_cat"
                             /\ UNCHANGED <<task, completed>>
                        ELSE /\ pc' = "cell"
                             /\ task' = task + 1
                             /\ completed' = Recorded(completed,
                                    [cell |-> <<row, col>>, task |-> task, rows |-> <<>>])
    /\ UNCHANGED <<cfg, lat, lon, row, col, fs, runs, faults, visited,
                   attempted, base, failedSinks>>
    /\ UNCHANGED <<resolveVars, parseVars, rowVars, scrapeVars, writerVars>>

\* lines 154-158: the rows go to the sink of the (category, term) pair
WriteCategory ==
    /\ pc = "write_cat"
    /\ \/ /\ fs' = write_rows_to_csv(fs, SinkPath(Tasks[task]), rows, HEADER)
          /\ pc' = "write_comb"
          /\ UNCHANGED <<faults, failedSinks, session, quits>>
       \/ /\ faults < MaxFaults
          /\ faults' = faults + 1
          /\ fs' \in write_rows_failed(fs, SinkPath(Tasks[task]), rows, HEADER)
          /\ failedSinks' = failedSinks \cup {SinkPath(Tasks[task])}
          /\ Escape
    /\ UNCHANGED <<cfg, lat, lon, row, col, task, rows, runs, listings, visited,
                   attempted, base, completed, inflight>>
    /\ UNCHANGED <<resolveVars, parseVars, rowVars, scrapeVars, writerVars>>

\* lines 160-166: the same rows go to the combined sink, without a header,
\* which finishes the pair
WriteCombined ==
    /\ pc = "write_comb"
    /\ \/ /\ fs' = write_rows_to_csv(fs, COMBINED_CSV, rows, <<>>)
          /\ rows' = <<>>
          /\ task' = task + 1
          /\ completed' = Recorded(completed,
                 [cell |-> <<row, col>>, task |-> task, rows |-> rows])
          /\ pc' = "cell"
          /\ UNCHANGED <<faults, failedSinks, session, quits>>
       \/ /\ faults < MaxFaults
          /\ faults' = faults + 1
          /\ fs' \in write_rows_failed(fs, COMBINED_CSV, rows, <<>>)
          /\ failedSinks' = failedSinks \cup {COMBINED_CSV}
          /\ Escape
          /\ UNCHANGED <<rows, task, completed>>
    /\ UNCHANGED <<cfg, lat, lon, row, col, runs, listings, visited, attempted, base,
                   inflight>>
    /\ UNCHANGED <<resolveVars, parseVars, rowVars, scrapeVars, writerVars>>

\* lines 168-169: every pair of the cell is done
NextCol ==
    /\ pc = "cell"
    /\ task > Len(Tasks)
    /\ lon' = FAdd(lon, cfg.STEP_LON, cfg.ULP)
    /\ col' = NextIndex(col)
    /\ pc' = "col"
    /\ UNCHANGED <<cfg, lat, row, task, rows, session, fs, runs, faults, listings,
                   visited, attempted, base, failedSinks, completed, quits, inflight>>
    /\ UNCHANGED <<resolveVars, parseVars, rowVars, scrapeVars, writerVars>>

\* lines 141-169 for a cell none of whose queries returns a listing: nothing
\* is written and the loop moves to the next column
CellQuiet ==
    /\ pc = "cell"
    /\ lon' = FAdd(lon, cfg.STEP_LON, cfg.ULP)
    /\ col' = NextIndex(col)
    /\ pc' = "col"
    /\ UNCHANGED <<cfg, lat, row, task, rows, session, fs, runs, faults, listings,
                   visited, attempted, base, failedSinks, completed, quits, inflight>>
    /\ UNCHANGED <<resolveVars, parseVars, rowVars, scrapeVars, writerVars>>

(***************************************************************************)
(* Runs of the pure functions: one call on inputs drawn from bounded sets. *)
(***************************************************************************)
Pending == [done |-> FALSE, raised |-> FALSE, lat |-> None, lon |-> None]

ResolveCall ==
    /\ ~r_out.done
    /\ r_out' = [done |-> TRUE] @@ extract_coordinates_from_url(r_url)
    /\ UNCHANGED r_url
    /\ UNCHANGED <<parseVars, rowVars, crawlVars, scrapeVars, writerVars>>

ParsePending == [done |-> FALSE, cands |-> <<>>, inspected |-> 0]

ParseCall ==
    /\ ~p_out.done
    /\ p_out' = [done |-> TRUE] @@
                parse_left_panel_pois(p_in.variant, p_in.markup, p_in.max_results)
    /\ UNCHANGED p_in
    /\ UNCHANGED <<resolveVars, rowVars, crawlVars, scrapeVars, writerVars>>

RowPending == [done |-> FALSE, row |-> <<>>]

RowCandidate(link) == Candidate(<<"P">>, link, <<"4">>, <<"7">>)

RowQuery == <<"q">>

RowCall ==
    /\ ~q_out.done
    /\ q_out' = [done |-> TRUE,
                 row  |-> BuildRow(RowCandidate(q_in.link), RowQuery, q_in.lat, q_in.lon)]
    /\ UNCHANGED q_in
    /\ UNCHANGED <<resolveVars, parseVars, crawlVars, scrapeVars, writerVars>>

ScrapePending == [done |-> FALSE, raised |-> FALSE, rows |-> <<>>]

ScrapeCall ==
    /\ ~s_out.done
    /\ s_out' = [done |-> TRUE] @@
                scrape_for_query_shot(s_in.page, RowQuery, s_in.lat, s_in.lon,
                                      NUM_RESULTS_PER_SEARCH, s_in.take, s_in.saves)
    /\ UNCHANGED s_in
    /\ UNCHANGED <<resolveVars, parseVars, rowVars, crawlVars, writerVars>>

(***************************************************************************)
(* utils.write_rows_to_csv called by several workers on one sink path, its *)
(* steps interleaved.  The sink is the sequence of fields and line ends    *)
(* written to it.  csv.writer hands each row to the file object as one     *)
(* line; the file object buffers what it is given and writes it to the     *)
(* file, opened for append, when the buffer fills and when the file is     *)
(* closed.                                                                 *)
(***************************************************************************)
Workers == 1..MaxWorkers

EOL == <<"\n">>

\* writer.writerow(r): the fields of r and the line end, as one write
Encode(r) == r \o <<EOL>>

\* the rows worker w appends: one row, whose query term names the worker
WorkerRows(w) ==
    << BuildRow(RowCandidate(HrefMaps), <<"w", DigitChars[w + 1]>>, 1500000, 2500000) >>

\* line 15: first_time = not os.path.exists(path)
WCheck(w) ==
    /\ w_pc[w] = "check"
    /\ w_first' = [w_first EXCEPT ![w] = ~w_file.exists]
    /\ w_pc' = [w_pc EXCEPT ![w] = "open"]
    /\ UNCHANGED <<w_buf, w_n, w_file>>
    /\ UNCHANGED <<resolveVars, parseVars, rowVars, scrapeVars, crawlVars>>

\* line 19: open(path, "a") creates the file if it is not there
WOpen(w) ==
    /\ w_pc[w] = "open"
    /\ w_file' = [w_file EXCEPT !.exists = TRUE]
    /\ w_pc' = [w_pc EXCEPT ![w] = "header"]
    /\ UNCHANGED <<w_first, w_buf, w_n>>
    /\ UNCHANGED <<resolveVars, parseVars, rowVars, scrapeVars, crawlVars>>

\* lines 21-22: if header and first_time: writer.writerow(header)
WHeader(w) ==
    /\ w_pc[w] = "header"
    /\ w_buf' = [w_buf EXCEPT ![w] = IF w_first[w] THEN @ \o Encode(HEADER) ELSE @]
    /\ w_pc' = [w_pc EXCEPT ![w] = "rows"]
    /\ UNCHANGED <<w_first, w_n, w_file>>
    /\ UNCHANGED <<resolveVars, parseVars, rowVars, scrapeVars, crawlVars>>

\* lines 23-24: writer.writerow(r) for the next row
WRow(w) ==
    /\ w_pc[w] \in {"rows", "spilled"}
    /\ w_n[w] < Len(WorkerRows(w))
    /\ w_buf' = [w_buf EXCEPT ![w] = @ \o Encode(WorkerRows(w)[w_n[w] + 1])]
    /\ w_n' = [w_n EXCEPT ![w] = @ + 1]
    /\ UNCHANGED <<w_pc, w_first, w_file>>
    /\ UNCHANGED <<resolveVars, parseVars, rowVars, scrapeVars, crawlVars>>

\* the buffer fills while the rows are written, once in a call: its first k
\* items reach the file, wherever in a line that falls
WSpill(w) ==
    /\ w_pc[w] = "rows"
    /\ \E k \in 1..Len(w_buf[w]) :
         /\ w_file' = [w_file EXCEPT !.data = @ \o SubSeq(w_buf[w], 1, k)]
         /\ w_buf' = [w_buf EXCEPT ![w] = SubSeq(@, k + 1, Len(@))]
    /\ w_pc' = [w_pc EXCEPT ![w] = "spilled"]
    /\ UNCHANGED <<w_first, w_n>>
    /\ UNCHANGED <<resolveVars, parseVars, rowVars, scrapeVars, crawlVars>>

\* the with block ends: what is buffered is written and the file is closed
WClose(w) ==
    /\ w_pc[w] \in {"rows", "spilled"}
    /\ w_n[w] = Len(WorkerRows(w))
    /\ w_file' = [w_file EXCEPT !.data = @ \o w_buf[w]]
    /\ w_buf' = [w_buf EXCEPT ![w] = <<>>]
    /\ w_pc' = [w_pc EXCEPT ![w] = "done"]
    /\ UNCHANGED <<w_first, w_n>>
    /\ UNCHANGED <<resolveVars, parseVars, rowVars, scrapeVars, crawlVars>>

(***************************************************************************)
(* Initial states and specifications.                                      *)
(***************************************************************************)
ResolveIdle ==
    /\ r_url = PyStr(<<>>)
    /\ r_out = Pending

ParseIdle ==
    /\ p_in = [variant |-> "scraper", markup |-> <<>>, max_results |-> 0]
    /\ p_out = ParsePending

RowIdle ==
    /\ q_in = [link |-> <<>>, lat |-> 0, lon |-> 0]
    /\ q_out = RowPending

ScrapeIdle ==
    /\ s_in = [page |-> <<>>, lat |-> 0, lon |-> 0, take |-> FALSE, saves |-> TRUE]
    /\ s_out = ScrapePending

\* no worker has been started
WritersIdle ==
    /\ w_pc = [w \in Workers |-> "done"]
    /\ w_first = [w \in Workers |-> FALSE]
    /\ w_buf = [w \in Workers |-> <<>>]
    /\ w_n = [w \in Workers |-> 0]
    /\ w_file = [exists |-> FALSE, data |-> <<>>]

\* before the first run: nothing on disk, no session
CrawlIdle ==
    /\ pc = "idle"
    /\ cfg = CONFIG
    /\ lat = 0 /\ lon = 0 /\ row = 0 /\ col = 0
    /\ task = 1
    /\ rows = <<>>
    /\ session = "none"
    /\ fs = [p \in Paths |-> NoFile]
    /\ runs = 0 /\ faults = 0 /\ listings = 0
    /\ visited = <<>>
    /\ attempted = {}
    /\ base = [p \in Paths |-> 0]
    /\ failedSinks = {}
    /\ completed = <<>>
    /\ quits = 0
    /\ inflight = 0

InitResolve ==
    /\ r_url \in ResolverInputs
    /\ r_out = Pending
    /\ ParseIdle /\ RowIdle /\ CrawlIdle /\ WritersIdle /\ ScrapeIdle

InitParse ==
    /\ p_in \in [variant : Variants, markup : Markups, max_results : 0..MaxResults]
    /\ p_out = ParsePending
    /\ ResolveIdle /\ RowIdle /\ CrawlIdle /\ WritersIdle /\ ScrapeIdle

InitRow ==
    /\ q_in \in [link : RowLinks, lat : Centers, lon : Centers]
    /\ q_out = RowPending
    /\ ResolveIdle /\ ParseIdle /\ CrawlIdle /\ WritersIdle /\ ScrapeIdle

\* rectangles with start <= end and positive steps, in units of 1e-12 degree,
\* the tolerance of the loop tests being one unit
GridConfigs ==
    { c \in [START_LAT : 0..MaxCoord, START_LON : 0..MaxCoord,
             END_LAT   : 0..MaxCoord, END_LON   : 0..MaxCoord,
             STEP_LAT  : 1..MaxStep,  STEP_LON  : 1..MaxStep, EPS : {1}, ULP : {0}] :
        c.START_LAT <= c.END_LAT /\ c.START_LON <= c.END_LON }

\* the grid loop of one run, entered at line 135
InitGrid ==
    /\ cfg \in GridConfigs
    /\ pc = "row"
    /\ lat = cfg.START_LAT /\ lon = 0 /\ row = 0 /\ col = 0
    /\ task = 1
    /\ rows = <<>>
    /\ session = "live"
    /\ fs = [p \in Paths |-> NoFile]
    /\ runs = 1 /\ faults = 0 /\ listings = 0
    /\ visited = <<>>
    /\ attempted = {}
    /\ base = [p \in Paths |-> 0]
    /\ failedSinks = {}
    /\ completed = <<>>
    /\ quits = 0
    /\ inflight = 0
    /\ ResolveIdle /\ ParseIdle /\ RowIdle /\ WritersIdle /\ ScrapeIdle

Init == ResolveIdle /\ ParseIdle /\ RowIdle /\ CrawlIdle /\ WritersIdle /\ ScrapeIdle

Next ==
    \/ Start
    \/ Home
    \/ RowCheck
    \/ ColCheck
    \/ Query
    \/ Listing
    \/ WriteCategory
    \/ WriteCombined
    \/ NextCol

\* run_scraper, started up to MaxRuns times against the same output directory
Spec == Init /\ [][Next]_vars

NextGrid == RowCheck \/ ColCheck \/ CellQuiet

SpecGrid == InitGrid /\ [][NextGrid]_vars

\* every worker is about to call write_rows_to_csv with a header, on a sink
\* that does not exist or that holds the header and one row
InitWriters ==
    /\ w_pc = [w \in Workers |-> "check"]
    /\ w_first = [w \in Workers |-> FALSE]
    /\ w_buf = [w \in Workers |-> <<>>]
    /\ w_n = [w \in Workers |-> 0]
    /\ w_file \in { [exists |-> FALSE, data |-> <<>>],
                    [exists |-> TRUE,
                     data |-> Encode(HEADER) \o
                              Encode(BuildRow(RowCandidate(HrefPlace), <<"w", "0">>,
                                              1500000, 2500000))] }
    /\ ResolveIdle /\ ParseIdle /\ RowIdle /\ CrawlIdle /\ ScrapeIdle

NextWriters ==
    \E w \in Workers :
        WCheck(w) \/ WOpen(w) \/ WHeader(w) \/ WRow(w) \/ WSpill(w) \/ WClose(w)

SpecWriters == InitWriters /\ [][NextWriters]_vars

\* one call of scrape_for_query on a fetched page, for every cell center and
\* every way the screenshot can go
InitScrape ==
    /\ s_in \in [page : Pages \cup {<<CardLinkLabel>>, <<CardBare, CardFull>>},
                 lat : Centers, lon : Centers, take : BOOLEAN, saves : BOOLEAN]
    /\ s_out = ScrapePending
    /\ ResolveIdle /\ ParseIdle /\ RowIdle /\ CrawlIdle /\ WritersIdle

SpecScrape == InitScrape /\ [][ScrapeCall]_vars

\* rectangles with start <= end and steps of either sign or zero, in units
\* of 1e-12 degree, the spacing of the floats around the coordinates being
\* far below one unit (0) or three units
LoopConfigs ==
    { c \in [START_LAT : 0..MaxLoopCoord, START_LON : 0..MaxLoopCoord,
             END_LAT   : 0..MaxLoopCoord, END_LON   : 0..MaxLoopCoord,
             STEP_LAT  : (0 - 1)..MaxStep, STEP_LON : (0 - 1)..MaxStep,
             EPS : {1}, ULP : {0, 3}] :
        c.START_LAT <= c.END_LAT /\ c.START_LON <= c.END_LON }

\* the grid loop of one run, entered at line 135, in which every call
\* returns and no fetch finds a listing
InitLoop ==
    /\ cfg \in LoopConfigs
    /\ pc = "row"
    /\ lat = cfg.START_LAT /\ lon = 0 /\ row = 0 /\ col = 0
    /\ task = 1
    /\ rows = <<>>
    /\ session = "live"
    /\ fs = [p \in Paths |-> NoFile]
    /\ runs = 1 /\ faults = MaxFaults /\ listings = MaxListings
    /\ visited = <<>>
    /\ attempted = {}
    /\ base = [p \in Paths |-> 0]
    /\ failedSinks = {}
    /\ completed = <<>>
    /\ quits = 0
    /\ inflight = 0
    /\ ResolveIdle /\ ParseIdle /\ RowIdle /\ WritersIdle /\ ScrapeIdle

NextLoop == RowCheck \/ ColCheck \/ Query \/ Listing \/ NextCol

\* the loop keeps running: run_scraper is one sequential thread
SpecLoop == InitLoop /\ [][NextLoop]_vars /\ WF_vars(NextLoop)

SpecResolve == InitResolve /\ [][ResolveCall]_vars

SpecParse == InitParse /\ [][ParseCall]_vars

SpecRow == InitRow /\ [][RowCall]_vars

(***************************************************************************)
(* Claims about the resolver.                                              *)
(***************************************************************************)
Sub(s, i, j) == SubSeq(s, i, j)

\* t has the shape of a float: optional sign, digits, a dot, digits
IsFloatStr(t) ==
    /\ Len(t) >= 3
    /\ LET st == IF t[1] = "-" THEN 2 ELSE 1
       IN  \E d \in (st + 1)..(Len(t) - 1) :
               /\ t[d] = "."
               /\ \A k \in st..Len(t) : k # d => IsDigit(t[k])

\* the substrings s[i+1..c-1] and s[c+1..j] of an occurrence @<float>,<float>
Markers(s) ==
    { <<i, c, j>> \in (1..Len(s)) \X (1..Len(s)) \X (1..Len(s)) :
        /\ s[i] = "@" /\ s[c] = "," /\ i < c /\ c < j
        /\ IsFloatStr(Sub(s, i + 1, c - 1))
        /\ IsFloatStr(Sub(s, c + 1, j)) }

\* the float-looking substrings starting at i
FloatsAt(s, i) == { j \in i..Len(s) : IsFloatStr(Sub(s, i, j)) }

Max(S) == CHOOSE x \in S : \A y \in S : y <= x

Min(S) == CHOOSE x \in S : \A y \in S : x <= y

\* where the first float-looking substring at or after position p starts
FloatStarts(s, p) == { i \in p..Len(s) : FloatsAt(s, i) # {} }

\* the first two float-looking substrings in order of occurrence, as <<i, j>>
\* spans: the leftmost one at its longest, then the next one after it
FirstTwoFloats(s) ==
    IF FloatStarts(s, 1) = {} THEN <<>>
    ELSE LET i1 == Min(FloatStarts(s, 1))
             j1 == Max(FloatsAt(s, i1))
         IN  IF FloatStarts(s, j1 + 1) = {} THEN <<>>
             ELSE LET i2 == Min(FloatStarts(s, j1 + 1))
                      j2 == Max(FloatsAt(s, i2))
                  IN  << <<i1, j1>>, <<i2, j2>> >>

ResolvedTo(out, a, b) ==
    out.lat = Float(ParseFloat(a)) /\ out.lon = Float(ParseFloat(b))

\* C9: the tiers of extract_coordinates_from_url are first-match-wins: a
\* reference that holds @<float>,<float> resolves to such a pair; otherwise
\* one with two float-looking substrings resolves to the first two in order;
\* otherwise the result is (None, None).
C9_TiersFirstMatchWins ==
    (r_out.done /\ r_url.type = "str") =>
        LET s == r_url.s
        IN  IF Markers(s) # {}
            THEN \E m \in Markers(s) :
                     ResolvedTo(r_out, Sub(s, m[1] + 1, m[2] - 1), Sub(s, m[2] + 1, m[3]))
            ELSE IF FirstTwoFloats(s) # <<>>
            THEN LET f == FirstTwoFloats(s)
                 IN  ResolvedTo(r_out, Sub(s, f[1][1], f[1][2]), Sub(s, f[2][1], f[2][2]))
            ELSE r_out.lat = None /\ r_out.lon = None

\* a reference whose center marker comes after another float: tier 1 wins
\* over the two floats that occur first
C9_Witness ==
    /\ r_out.done /\ r_url.type = "str"
    /\ Markers(r_url.s) # {}
    /\ LET f == FirstTwoFloats(r_url.s)
       IN  /\ f # <<>>
           /\ \A m \in Markers(r_url.s) : f[1][1] < m[1]
           /\ ~ResolvedTo(r_out, Sub(r_url.s, f[1][1], f[1][2]),
                                Sub(r_url.s, f[2][1], f[2][2]))

\* C10: extract_coordinates_from_url never raises, whatever the reference
\* (a non-string included), and returns two numbers or (None, None).
C10_NeverRaises ==
    r_out.done =>
        /\ ~r_out.raised
        /\ r_out.lat.isNone <=> r_out.lon.isNone

\* a non-string reference, on which re.search raises inside the try block
C10_Witness ==
    /\ r_out.done /\ r_url.type # "str"
    /\ r_out.lat = None /\ r_out.lon = None

(***************************************************************************)
(* Claims about the extractor.                                             *)
(***************************************************************************)
\* how many of the first k cards yield a candidate
Yield(variant, cards, k) ==
    Cardinality({ i \in 1..k : CardCandidate(variant, cards[i]).emit })

\* C7: parse_left_panel_pois with max_results = N returns at most N
\* candidates, and inspects no card after the one that yields the N-th.
C7_AtMostMaxResults ==
    p_out.done =>
        LET cards == FindCards(p_in.markup)
            N     == p_in.max_results
        IN  /\ Len(p_out.cands) <= N
            /\ \A k \in 0..Len(cards) :
                   Yield(p_in.variant, cards, k) = N => p_out.inspected <= k

\* a markup with more yielding cards than the cap: the loop stops early
C7_Witness ==
    /\ p_out.done
    /\ LET cards == FindCards(p_in.markup)
       IN  /\ Yield(p_in.variant, cards, Len(cards)) > p_in.max_results
           /\ Len(p_out.cands) = p_in.max_results
           /\ p_out.inspected < Len(cards)

\* C8: every candidate parse_left_panel_pois returns, in every variant, has a
\* non-empty name.
C8_NoNamelessCandidate ==
    p_out.done => \A i \in 1..Len(p_out.cands) : p_out.cands[i].name # <<>>

(***************************************************************************)
(* Claims about the crawl.                                                 *)
(***************************************************************************)
\* how many values start, start + step, ... stay within end + eps
GridCount(start, end, step, eps) == ((end - start + eps) \div step) + 1

\* every (cell, pair) of the grid x term cross product of configuration c
AllTasks(c) ==
    { <<i, j, t>> \in
        (0..(GridCount(c.START_LAT, c.END_LAT, c.STEP_LAT, c.EPS) - 1)) \X
        (0..(GridCount(c.START_LON, c.END_LON, c.STEP_LON, c.EPS) - 1)) \X
        (1..Len(Tasks)) : TRUE }

\* the run has ended, by completing or by an exception leaving the grid loop
Stopped == pc \in {"done", "aborted"} /\ session = "released"

\* C1: an error raised while processing one (cell, term) pair never aborts
\* the crawl: when a run that has taken up a pair ends, every pair of the
\* grid x term cross product has been attempted.
C1_FailedPairNeverAbortsCrawl ==
    (Stopped /\ attempted # {}) => attempted = AllTasks(cfg)

Range(s) == { s[i] : i \in 1..Len(s) }

DataRows(s) == SelectSeq(s, LAMBDA l : l # HEADER)

\* C2: an append with a header to a path that does not exist creates it with
\* the header row first and the given rows after it, and later appends add
\* rows only: every sink whose appends have all returned starts with the
\* header and holds it exactly once, and just after the append to a category
\* sink the sink ends with the rows of that call, in order.
C2_HeaderExactlyOnce ==
    /\ \A p \in Paths :
           (fs[p].exists /\ p \notin failedSinks) =>
               /\ fs[p].lines # <<>>
               /\ fs[p].lines[1] = HEADER
               /\ \A i \in 2..Len(fs[p].lines) : fs[p].lines[i] # HEADER
    /\ (pc = "write_comb" /\ SinkPath(Tasks[task]) \notin failedSinks) =>
           LET l == fs[SinkPath(Tasks[task])].lines
           IN  /\ Len(l) > Len(rows)
               /\ SubSeq(l, Len(l) - Len(rows) + 1, Len(l)) = rows

\* a category sink that was created in one run and appended to in the next
C2_Witness ==
    \E p \in CategorySinks :
        /\ p \notin failedSinks
        /\ runs = 2
        /\ base[p] >= 3
        /\ Len(fs[p].lines) > base[p]

\* the data rows a sink has received since the run started
Added(p) == DataRows(SubSeq(fs[p].lines, base[p] + 1, Len(fs[p].lines)))

Count(s, x) == Cardinality({ i \in 1..Len(s) : s[i] = x })

RECURSIVE CountIn(_, _)
CountIn(S, x) ==
    IF S = {} THEN 0
    ELSE LET p == CHOOSE q \in S : TRUE
         IN  Count(Added(p), x) + CountIn(S \ {p}, x)

\* the run is between two (cell, term) pairs, or has stopped
BetweenPairs == pc \in {"row", "col", "cell", "done", "aborted"}

\* C3: between two pairs, and when the crawl has stopped for any reason, the
\* rows the run added to the combined sink are the rows it added to the
\* category sinks, with the same multiplicity.
C3_EveryRecordInBothSinks ==
    BetweenPairs =>
        \A x \in UNION { Range(Added(p)) : p \in Paths } :
            Count(Added(COMBINED_CSV), x) = CountIn(CategorySinks, x)

(***************************************************************************)
(* Claims about the rows of scrape_for_query.                              *)
(***************************************************************************)
Resolution(link) == extract_coordinates_from_url(PyStr(link))

\* C4: the Latitude and Longitude of a row are both the resolved coordinates
\* or both the cell center, never one number and one 'N/A'.
C4_LatLonBothOrNeither ==
    q_out.done =>
        LET r  == Resolution(q_in.link)
            la == Field(q_out.row, ColLatitude)
            lo == Field(q_out.row, ColLongitude)
        IN  \/ /\ ~r.lat.isNone /\ ~r.lon.isNone
               /\ la = Fmt6(r.lat.v) /\ lo = Fmt6(r.lon.v)
            \/ /\ r.lat.isNone \/ r.lon.isNone
               /\ la = Fmt6(q_in.lat) /\ lo = Fmt6(q_in.lon)

\* C5: a row whose location reference does not resolve carries the cell
\* center as Latitude and Longitude, and a Distance_m of 0.
C5_UnresolvedFallsBackToCenter ==
    (q_out.done /\ Resolution(q_in.link).lat.isNone) =>
        /\ Field(q_out.row, ColLatitude) = Fmt6(q_in.lat)
        /\ Field(q_out.row, ColLongitude) = Fmt6(q_in.lon)
        /\ Field(q_out.row, ColDistance) = Fmt1(0)

(***************************************************************************)
(* Claims about the grid loop.                                             *)
(***************************************************************************)
\* the cells of configuration c in row-major order, indices from 0, the end
\* bounds taken with tolerance eps
ExpectedCells(c, eps) ==
    LET nr == GridCount(c.START_LAT, c.END_LAT, c.STEP_LAT, eps)
        nc == GridCount(c.START_LON, c.END_LON, c.STEP_LON, eps)
    IN  [k \in 1..(nr * nc) |->
            << (k - 1) \div nc, (k - 1) % nc,
               c.START_LAT + ((k - 1) \div nc) * c.STEP_LAT,
               c.START_LON + ((k - 1) % nc) * c.STEP_LON >>]

RECURSIVE LinesOf(_, _)
LinesOf(data, cur) ==
    IF data = <<>> THEN (IF cur = <<>> THEN <<>> ELSE <<cur>>)
    ELSE IF Head(data) = EOL THEN <<cur>> \o LinesOf(Tail(data), <<>>)
    ELSE LinesOf(Tail(data), Append(cur, Head(data)))

\* every row of every worker
WrittenRows == UNION { Range(WorkerRows(w)) : w \in Workers }

AllWorkersDone == \A w \in Workers : w_pc[w] = "done"

\* C11: when the workers' calls on one sink have all returned, however their
\* steps were interleaved, the sink starts with the header, holds it exactly
\* once, and every other line is a whole row: one a worker wrote, or one the
\* sink held before, never fields of two rows mixed.
C11_InterleavedAppendsKeepShape ==
    AllWorkersDone =>
        LET l == LinesOf(w_file.data, <<>>)
        IN  /\ l # <<>>
            /\ l[1] = HEADER
            /\ \A i \in 2..Len(l) :
                   /\ l[i] # HEADER
                   /\ Len(l[i]) = Len(HEADER)
                   /\ \/ l[i] \in WrittenRows
                      \/ l[i][6] = <<"w", "0">>

(***************************************************************************)
(* Claims about the sinks over time.                                       *)
(***************************************************************************)
IsPrefix(s, t) == Len(s) <= Len(t) /\ SubSeq(t, 1, Len(s)) = s

\* every sink keeps what it holds: it stays in existence and its lines stay
\* the first lines of what it holds next
SinksOnlyGrow ==
    \A p \in Paths :
        /\ fs[p].exists => fs'[p].exists
        /\ IsPrefix(fs[p].lines, fs'[p].lines)

\* C12: sinks are append-only across every append and every restart of
\* run_scraper: in every step the content of each sink before is a prefix of
\* its content after, so no line is removed, reordered or rewritten and no
\* sink is truncated.
C12_SinksAppendOnly == [][SinksOnlyGrow]_vars

\* a re-run has appended to the combined sink that an earlier run filled
C12_Witness ==
    /\ runs = 2
    /\ base[COMBINED_CSV] >= 2
    /\ Len(fs[COMBINED_CSV].lines) > base[COMBINED_CSV]

\* the rows of the finished pairs es that belong to sink p, in order
RECURSIVE RowsFor(_, _)
RowsFor(es, p) ==
    IF es = <<>> THEN <<>>
    ELSE (IF p = COMBINED_CSV \/ p = SinkPath(Tasks[Head(es).task])
          THEN Head(es).rows ELSE <<>>) \o RowsFor(Tail(es), p)

\* C13: wherever the crawl is stopped between two (cell, term) pairs, every
\* record of every pair finished so far is already in its category sink and
\* in the combined sink, as many times as it was collected: nothing is held
\* back in memory.
C13_FinishedPairsAreOnDisk ==
    BetweenPairs =>
        \A p \in Paths :
            \A x \in Range(RowsFor(completed, p)) :
                Count(RowsFor(completed, p), x) <= Count(Added(p), x)

\* the crawl stands between the first pair of a cell, which yielded rows, and
\* the second
C13_Witness ==
    /\ pc = "cell"
    /\ task = 2
    /\ completed # <<>>
    /\ completed[Len(completed)].rows # <<>>

(***************************************************************************)
(* Claims about the screenshot.                                            *)
(***************************************************************************)
\* C14: a screenshot that fails inside scrape_for_query is caught: no
\* exception reaches the caller, and the rows returned are those returned
\* for the same page and cell when the screenshot succeeds and when it is
\* switched off.
C14_ScreenshotFailureIsHarmless ==
    s_out.done =>
        /\ ~s_out.raised
        /\ \A take \in BOOLEAN, saves \in BOOLEAN :
               s_out.rows =
                   scrape_for_query_shot(s_in.page, RowQuery, s_in.lat, s_in.lon,
                       NUM_RESULTS_PER_SEARCH, take, saves).rows

\* a call that returned rows although its screenshot failed
C14_Witness ==
    /\ s_out.done
    /\ s_in.take /\ ~s_in.saves
    /\ s_out.rows # <<>>

(***************************************************************************)
(* Claims about the fields of a candidate.                                 *)
(***************************************************************************)
\* the name of a card by the tiers: its own label, the label of its nested
\* link, its heading, its visible text cut to 200 characters
TieredName(card) ==
    IF card.aria # <<>> THEN card.aria
    ELSE IF card.hasLink /\ card.naria # <<>> THEN card.naria
    ELSE IF card.hasHeading /\ card.heading # <<>> THEN card.heading
    ELSE Take(card.text, NAME_LIMIT)

\* the names the tiers give the cards that can be read, those without a name
\* left out, up to n of them
TieredNames(cards, n) ==
    LET readable == SelectSeq(cards, LAMBDA c : ~c.raises)
        names    == [i \in 1..Len(readable) |-> TieredName(readable[i])]
    IN  Take(SelectSeq(names, LAMBDA s : s # <<>>), n)

\* C15: parse_left_panel_pois of scraper.py names each card by the tiers in
\* order: own aria-label, else the aria-label of a nested link, else the
\* heading text, else the visible text cut to 200 characters.
C15_NameByTiers ==
    (p_out.done /\ p_in.variant = "scraper") =>
        [i \in 1..Len(p_out.cands) |-> p_out.cands[i].name] =
            TieredNames(FindCards(p_in.markup), p_in.max_results)

\* the candidates of the cards cs, one after the other, none of them failing
RECURSIVE CandidatesOf(_, _)
CandidatesOf(variant, cs) ==
    IF cs = <<>> THEN <<>>
    ELSE (IF CardCandidate(variant, Head(cs)).emit
          THEN <<CardCandidate(variant, Head(cs)).cand>> ELSE <<>>)
         \o CandidatesOf(variant, Tail(cs))

\* C16: a card whose extraction raises is skipped and nothing else changes:
\* the call returns, and its candidates are those of the cards before and
\* after it, in order, as if the failing cards were not among the cards
\* (up to max_results of them).
C16_FailingCardIsSkipped ==
    p_out.done =>
        p_out.cands =
            Take(CandidatesOf(p_in.variant,
                     SelectSeq(FindCards(p_in.markup), LAMBDA c : ~c.raises)),
                 p_in.max_results)

\* a failing card between two cards that both yield a candidate
C16_Witness ==
    /\ p_out.done
    /\ LET cards == FindCards(p_in.markup)
       IN  /\ Len(cards) = 3
           /\ cards[2].raises
           /\ Len(p_out.cands) = 2
           /\ p_out.cands[1] = CardCandidate(p_in.variant, cards[1]).cand
           /\ p_out.cands[2] = CardCandidate(p_in.variant, cards[3]).cand

(***************************************************************************)
(* Claims about the distance of a row.                                     *)
(***************************************************************************)
\* C17: every row whose coordinates were resolved from the location
\* reference, whatever their values, carries a non-empty Distance_m: the
\* haversine distance from the cell center to the resolved point, rendered to
\* one decimal place.
C17_ResolvedRowHasDistance ==
    LET r == Resolution(q_in.link)
    IN  (q_out.done /\ ~r.lat.isNone /\ ~r.lon.isNone) =>
            /\ Field(q_out.row, ColDistance) # <<>>
            /\ Field(q_out.row, ColDistance) =
                   Fmt1(haversine_distance(q_in.lat, q_in.lon, r.lat.v, r.lon.v))

(***************************************************************************)
(* Claims about the order of the records.                                  *)
(***************************************************************************)
\* the run is at a boundary between pairs and no call of it has raised
AtPairBoundary == pc \in {"row", "col", "cell", "done"}

\* pair a is before pair b in the traversal: by row, then column, then term
PairBefore(a, b) ==
    \/ a.cell[1] < b.cell[1]
    \/ a.cell[1] = b.cell[1] /\ a.cell[2] < b.cell[2]
    \/ a.cell = b.cell /\ a.task < b.task

\* the names of the candidates of a page, in the order of its cards
NamesOf(page) ==
    LET cands == parse_left_panel_pois("scraper", page, NUM_RESULTS_PER_SEARCH).cands
    IN  [i \in 1..Len(cands) |-> cands[i].name]

\* C18: the rows of one pair are in the order of the candidates that
\* parse_left_panel_pois returned (the order of the cards), they stand in one
\* block, in that order, in the category sink and in the combined sink, and
\* the blocks of successive pairs follow each other in traversal order.
C18_RecordOrderIsExtractionOrder ==
    /\ AtPairBoundary =>
           \A p \in Paths : Added(p) = RowsFor(completed, p)
    /\ \A i \in 1..Len(completed) :
           /\ \E page \in Pages :
                  [k \in 1..Len(completed[i].rows) |-> completed[i].rows[k][1]]
                      = NamesOf(page)
           /\ \A j \in 1..Len(completed) :
                  i < j => PairBefore(completed[i], completed[j])

\* two pairs, each with two records, have been written one after the other
C18_Witness ==
    /\ AtPairBoundary
    /\ Len(completed) >= 2
    /\ Len(Added(COMBINED_CSV)) >= 4
    /\ \E p \in CategorySinks : Len(Added(p)) >= 2

(***************************************************************************)
(* Claims about the end of the crawl.                                      *)
(***************************************************************************)
\* the <<row, column, term>> of the pairs of configuration c, in traversal
\* order
ExpectedPairs(c) ==
    LET cells == ExpectedCells(c, c.EPS)
        n     == Len(Tasks)
    IN  [k \in 1..(Len(cells) * n) |->
            << cells[((k - 1) \div n) + 1][1], cells[((k - 1) \div n) + 1][2],
               ((k - 1) % n) + 1 >>]

\* the <<row, column, term>> of the pairs the run has finished, in order
FinishedPairs ==
    [k \in 1..Len(completed) |->
        <<completed[k].cell[1], completed[k].cell[2], completed[k].task>>]

PositiveSteps(c) == c.STEP_LAT > 0 /\ c.STEP_LON > 0

\* every addition of a step moves the coordinate up
AdvancingSteps(c) ==
    /\ PositiveSteps(c)
    /\ 2 * c.STEP_LAT >= c.ULP
    /\ 2 * c.STEP_LON >= c.ULP

Finished == pc = "done"

\* a run that ends has processed each triple of the grid exactly once
EachPairOnce == Finished => FinishedPairs = ExpectedPairs(cfg)

\* C19 as claimed: with start <= end and strictly positive steps, every call
\* returning, run_scraper terminates, having processed each (cell, category,
\* term) triple exactly once; with a step of zero or less on an axis it never
\* terminates.
C19_TerminatesIffPositiveSteps ==
    /\ PositiveSteps(cfg) => <>Finished
    /\ PositiveSteps(cfg) => []EachPairOnce
    /\ ~PositiveSteps(cfg) => []~Finished

\* C19 as amended: run_scraper terminates, each triple processed exactly
\* once, when both steps are strictly positive and large enough for each
\* addition to move the running coordinate; when a step is zero, negative, or
\* so small that the addition is rounded away, the loop of that axis never
\* reaches its end bound and the crawl never terminates.
C19_TerminatesIffStepsAdvance ==
    /\ AdvancingSteps(cfg) => <>Finished
    /\ AdvancingSteps(cfg) => []EachPairOnce
    /\ ~AdvancingSteps(cfg) => []~Finished

\* a grid of several rows and columns has been crawled to its end
C19_Witness ==
    /\ Finished
    /\ AdvancingSteps(cfg)
    /\ Len(visited) >= 4
    /\ Len(completed) = Len(visited) * Len(Tasks)
    /\ visited[Len(visited)][1] >= 1 /\ visited[Len(visited)][2] >= 1

(***************************************************************************)
(* Claims about the browsing session.                                      *)
(***************************************************************************)
Running == pc \in {"home", "row", "col", "cell", "loading", "write_cat", "write_comb"}

\* where the run is, the session is: live and never released while the run
\* is inside the try block; released, once, when the run has left it; and
\* with at most one navigation in progress, on a live session
SessionScoped ==
    /\ Running => session = "live" /\ quits = 0
    /\ pc \in {"done", "aborted"} =>
           \/ session = "released" /\ quits = 1
           \/ session = "none" /\ quits = 0
    /\ inflight \in {0, 1}
    /\ inflight = 1 => session = "live"

\* a step that takes up a pair or starts a navigation is taken on a live
\* session, and a released session is left alone until run_scraper is
\* started again
SessionStep ==
    /\ (inflight' > inflight \/ attempted' # attempted) =>
           session = "live" \/ runs' # runs
    /\ session = "released" =>
           \/ session' = "released" /\ inflight' = inflight /\ quits' = quits
           \/ runs' = runs + 1

\* C20: the session of a run has a scoped lifetime: once created it is
\* released (driver.quit) exactly once on every exit path, normal completion
\* or an exception escaping the grid loop; no navigation is issued after the
\* release; and at most one navigation is in progress at any time.
C20_SessionScopedLifetime == []SessionScoped /\ [][SessionStep]_vars

\* an exception has left the grid loop after a pair was finished, and the
\* session has been released
C20_Witness ==
    /\ pc = "aborted"
    /\ completed # <<>>
    /\ session = "released"
    /\ quits = 1

====
